---------------------------- MODULE Spec2Model ----------------------------
(***************************************************************************)
(* The personality-quiz scoring engine of src/quiz_model.py (QuizModel).   *)
(*                                                                         *)
(* Numbers.  The engine computes in floating point.  Here every real is a  *)
(* fixed-point integer:                                                    *)
(*   - scores, correlations and factors in units of 1/Scale (0.5 is 5000), *)
(*     products and quotients rounded to the nearest unit;                 *)
(*   - answer values on the 1-5 scale in quarters (Moderate 3 is 12), in   *)
(*     which every value and every correlated score is exact;              *)
(*   - weights in thousandths (W_d 39.0 is 39000, W_c 0.085 is 85), so the *)
(*     accumulators are exact integers.                                    *)
(* The two accumulators are carried a second time as the doubles the code  *)
(* holds, bit for bit (accumulator_doubles): the rounding of each += shows  *)
(* only there.                                                             *)
(***************************************************************************)
EXTENDS Integers, Sequences, FiniteSets, TLC

\* ------------------------------------------------------------------ bounds

\* A session makes at most this many process_answer calls between resets
\* (user_answers grows with every call, also with one that raises).
MaxAnswers == 4

\* ------------------------------------------------------------- arithmetic

Scale == 10 * 1000
Quarter == 2 * 2
Milli == 10 * 100

Abs(x) == IF x < 0 THEN -x ELSE x
Max(a, b) == IF a >= b THEN a ELSE b
Min(a, b) == IF a <= b THEN a ELSE b
\* x / d rounded to the nearest integer (d > 0)
RoundDiv(x, d) == (2 * x + d) \div (2 * d)
\* the product of two fixed-point numbers
Mul(a, b) == RoundDiv(a * b, Scale)
\* np.clip(x, lo, hi) and max(lo, min(hi, x))
Clip(x, lo, hi) == Max(lo, Min(hi, x))
\* n / d in units of 1/Scale for 0 <= n, d > 0, by long division so that
\* no intermediate leaves the 32-bit range
FixDiv(n, d) ==
    LET q  == n \div d
        r0 == n % d
        d1 == (r0 * 100) \div d
        r1 == (r0 * 100) % d
        d2 == (r1 * 100) \div d
        r2 == (r1 * 100) % d
    IN  q * Scale + d1 * 100 + d2 + (IF 2 * r2 >= d THEN 1 ELSE 0)

RECURSIVE SumSeq(_)
SumSeq(s) == IF s = <<>> THEN 0 ELSE Head(s) + SumSeq(Tail(s))

RECURSIVE Pow2(_)
Pow2(e) == IF e = 0 THEN 1 ELSE 2 * Pow2(e - 1)

\* the b with 2^b <= k < 2^(b+1)
RECURSIVE BinaryLog(_)
BinaryLog(k) == IF k < 2 THEN 0 ELSE 1 + BinaryLog(k \div 2)

\* ---------------------------------------------------------------- doubles
\* A non-negative double, bit for bit: the integer x * 2^FractionBits in
\* three limbs << high, middle, low >> of LimbBits bits each, the upper two
\* of them below Limb.  Every double met here is a multiple of
\* 2^-FractionBits and below 2^(3 * LimbBits - FractionBits), so the integer
\* is exact; an operation computes the exact result and rounds it to the 53
\* significant bits of a double, to nearest, ties to even.

\* the bits of a double's mantissa after the leading one
MantissaBits == 52

FractionBits == MantissaBits + 8
LimbBits == 3 * 8
Limb == Pow2(LimbBits)
HalfLimb == Pow2(LimbBits \div 2)

DoubleZero == <<0, 0, 0>>

\* the limbs with the carries taken up
Carried(x) ==
    LET middle == x[2] + x[3] \div Limb
    IN  << x[1] + middle \div Limb, middle % Limb, x[3] % Limb >>

\* the number of significant bits
Bits(x) ==
    IF x[1] > 0 THEN 2 * LimbBits + BinaryLog(x[1]) + 1
    ELSE IF x[2] > 0 THEN LimbBits + BinaryLog(x[2]) + 1
    ELSE IF x[3] > 0 THEN BinaryLog(x[3]) + 1
    ELSE 0

\* the double nearest to x, or to a little more than x when sticky tells
\* that the exact result has bits beyond the last limb
Rounded(x, sticky) ==
    LET drop == Bits(x) - (MantissaBits + 1) IN
    IF drop <= 0 THEN x
    ELSE LET unit == Pow2(drop)
             rest == x[3] % unit
             odd == (x[3] \div unit) % 2 = 1
             up == 2 * rest > unit \/ (2 * rest = unit /\ (sticky \/ odd))
         IN  Carried(<< x[1], x[2], x[3] - rest + (IF up THEN unit ELSE 0) >>)

\* x + y in double precision
DoubleSum(x, y) == Rounded(Carried(<< x[1] + y[1], x[2] + y[2], x[3] + y[3] >>), FALSE)

\* q * x in double precision, for a q of so many quarters (q itself is a
\* double without rounding)
DoubleTimesQuarters(x, quarters) ==
    LET product == Carried(<< x[1] * quarters, x[2] * quarters, x[3] * quarters >>)
        high == product[1] % Quarter
        middle == high * Limb + product[2]
        low == (middle % Quarter) * Limb + product[3]
    IN  Rounded(<< product[1] \div Quarter, middle \div Quarter, low \div Quarter >>,
                low % Quarter # 0)

\* the double a decimal literal c / n is read as: the quotient by long
\* division, half a limb at a time (the integer part, then five half limbs
\* of fraction), rounded
DoubleOf(c, n) ==
    LET d1 == ((c % n) * HalfLimb) \div n
        r1 == ((c % n) * HalfLimb) % n
        d2 == (r1 * HalfLimb) \div n
        r2 == (r1 * HalfLimb) % n
        d3 == (r2 * HalfLimb) \div n
        r3 == (r2 * HalfLimb) % n
        d4 == (r3 * HalfLimb) \div n
        r4 == (r3 * HalfLimb) % n
        d5 == (r4 * HalfLimb) \div n
        r5 == (r4 * HalfLimb) % n
    IN  Rounded(<< (c \div n) * HalfLimb + d1, d2 * HalfLimb + d3, d4 * HalfLimb + d5 >>,
                r5 # 0)

\* ---------------------------------------------------- engine constants

\* self.W_d = 39.0 and self.W_c = 0.085, in thousandths
W_d == 39000
W_c == 85
\* the doubles the two literals are read as
W_d_double == DoubleOf(W_d, Milli)
W_c_double == DoubleOf(W_c, Milli)
\* self.correlation_enforcement = 0.22
correlation_enforcement == 2200
\* a variant of the gate that asks for more weight than one direct answer
\* brings
GateWeightAboveDirect == 40 * Milli
\* the gate of calculate_scores: sum(self.sum_weight.values()) > 10
GateWeight == 10 * Milli

\* self.test_modes[mode]["questions"]
test_modes == [demo |-> 36, basic |-> 120, comprehensive |-> 240]

\* self.value_map, in quarters; .get(choice_value, 3) for an unknown label
value_map(label) ==
    CASE label = "Very Low"     -> 4
      [] label = "Low"          -> 8
      [] label = "Low-Moderate" -> 10
      [] label = "Moderate"     -> 12
      [] label = "High"         -> 16
      [] label = "Very High"    -> 20
      [] OTHER                  -> 12

\* self.adjustment_map, in quarters; .get(symbol, 0.0) for an unknown symbol
adjustment_map(symbol) ==
    CASE symbol = "+"  -> 2
      [] symbol = "+m" -> 1
      [] symbol = "0"  -> 0
      [] symbol = "-m" -> -1
      [] symbol = "-"  -> -2
      [] OTHER         -> 0

\* self.trait_abbr_to_full.get(abbr); "None" for an unknown abbreviation
trait_abbr_to_full(abbr) ==
    CASE abbr = "H-H" -> "Honesty-Humility"
      [] abbr = "Em"  -> "Emotionality"
      [] abbr = "Ex"  -> "Extraversion"
      [] abbr = "Ag"  -> "Agreeableness"
      [] abbr = "Co"  -> "Conscientiousness"
      [] abbr = "Op"  -> "Openness"
      [] abbr = "Do"  -> "Dominance"
      [] abbr = "Vi"  -> "Vigilance"
      [] abbr = "ST"  -> "Self-Transcendence"
      [] abbr = "C/A" -> "Abstract Orientation"
      [] abbr = "L/V" -> "Value Orientation"
      [] abbr = "S/F" -> "Flexibility"
      [] OTHER        -> "None"

\* self.pair_specific_params and the default of _get_pair_params
\* (the cache of _get_pair_params only memoises this lookup)
pair_specific_params(pair) ==
    CASE pair = <<"Agreeableness", "Vigilance">> ->
             [found |-> TRUE, force_factor |-> 22000, threshold |-> 800, min_score |-> 1900]
      [] pair = <<"Agreeableness", "Dominance">> ->
             [found |-> TRUE, force_factor |-> 21000, threshold |-> 800, min_score |-> 1900]
      [] pair = <<"Conscientiousness", "Flexibility">> ->
             [found |-> TRUE, force_factor |-> 23000, threshold |-> 800, min_score |-> 1600]
      [] pair = <<"Extraversion", "Dominance">> ->
             [found |-> TRUE, force_factor |-> 20000, threshold |-> 800, min_score |-> 2100]
      [] pair = <<"Openness", "Self-Transcendence">> ->
             [found |-> TRUE, force_factor |-> 19000, threshold |-> 800, min_score |-> 2100]
      [] pair = <<"Openness", "Abstract Orientation">> ->
             [found |-> TRUE, force_factor |-> 19000, threshold |-> 800, min_score |-> 2100]
      [] OTHER ->
             [found |-> FALSE, force_factor |-> 14000, threshold |-> 1500, min_score |-> 1500]

_get_pair_params(trait_pair, reverse_pair) ==
    IF pair_specific_params(trait_pair).found THEN pair_specific_params(trait_pair)
    ELSE pair_specific_params(reverse_pair)

\* the critical_pairs list of _apply_phase3_adjustments
critical_pairs ==
    << <<"Agreeableness", "Vigilance", -6000>>,
       <<"Agreeableness", "Dominance", -5500>>,
       <<"Conscientiousness", "Flexibility", -7200>>,
       <<"Extraversion", "Dominance", 5600>>,
       <<"Openness", "Self-Transcendence", 7000>>,
       <<"Openness", "Abstract Orientation", 6500>> >>

\* self.critical_neg_correlated_pairs
critical_neg_correlated_pairs ==
    << <<"Agreeableness", "Vigilance">>,
       <<"Agreeableness", "Dominance">>,
       <<"Conscientiousness", "Flexibility">> >>


\* ------------------------------------------------------------ the registry
\* What load_questions_and_traits reads from the questions file: the traits,
\* their facets, the candidate correlation matrices and the question bank.

traits == <<"Agreeableness", "Vigilance", "Dominance">>
n_traits == Len(traits)
TraitIdx == 1..n_traits
TraitNames == {traits[i] : i \in TraitIdx}
\* self.traits.index(name); 0 stands for the ValueError of an absent name
TraitIndex(name) ==
    IF name \in TraitNames THEN CHOOSE i \in TraitIdx : traits[i] = name ELSE 0

facets == [t \in TraitNames |->
             CASE t = "Agreeableness" -> {"Trust"}
               [] t = "Vigilance"     -> {"Caution"}
               [] OTHER               -> {}]

\* data["trait_correlations"]: a matrix with strong critical pairs, and the
\* matrix of a registry that declares no correlation at all
CorrelationMatrices ==
    { << <<0, -6000, -5500>>,
         <<-6000, 0, 5000>>,
         <<-5500, 5000, 0>> >>,
      << <<0, 0, 0>>,
         <<0, 0, 0>>,
         <<0, 0, 0>> >> }

NoCorr == <<>>

\* data["questions"]: category is the result of category.split(":"), and a
\* choice's correlations the items of its dict
questions ==
    << [id |-> 1, type |-> "normal", category |-> <<"Agreeableness", "Trust">>,
        choices |-> << [value |-> "High", correlations |-> NoCorr],
                       [value |-> "Very Low", correlations |-> NoCorr] >>],
       [id |-> 2, type |-> "demographic", category |-> <<"Age">>,
        choices |-> << [value |-> "Moderate", correlations |-> NoCorr] >>],
       [id |-> 3, type |-> "normal", category |-> <<"Unlisted">>,
        choices |-> << [value |-> "Very High", correlations |-> << <<"Ag", "+">> >>],
                       [value |-> "Very Low", correlations |-> << <<"Ag", "-">> >>] >>],
       [id |-> 4, type |-> "normal", category |-> <<"Dominance">>,
        choices |-> << [value |-> "Very High",
                        correlations |-> << <<"Vi", "-">>, <<"Zz", "+">>, <<"Ag", "?">> >>] >>] >>

\* --------------------------------------------------------- scoring pipeline

\* a variant of _calculate_base_scores without the clamp of lines 388-392
BaseScoresUnclamped(svw, sw, test_mode) ==
    [i \in TraitIdx |->
        LET t == traits[i] IN
        IF sw[t] > 0
        THEN FixDiv(svw[t] - Quarter * sw[t], 4 * Quarter * sw[t])
        ELSE 5000]

\* _calculate_base_scores, from the accumulators
\* (avg - 1) / 4 with avg = svw / sw is (svw - 4 sw) / (16 sw) in quarters
_calculate_base_scores(svw, sw, test_mode) ==
    [i \in TraitIdx |->
        LET t == traits[i] IN
        IF sw[t] > 0
        THEN LET normalized_score == FixDiv(svw[t] - Quarter * sw[t], 4 * Quarter * sw[t])
             IN  IF test_mode THEN Clip(normalized_score, 0, Scale)
                 ELSE Clip(normalized_score, 1000, 9000)
        ELSE 5000]

\* _detect_response_pattern: the two ratios phase 1 reads, as exact tests
\* high_ratio > 0.6 and low_ratio > 0.6, and the two classifications
_detect_response_pattern(pc) ==
    LET total == Max(1, pc.total) IN
    [ high_over_06   |-> 10 * pc.high > 6 * total,
      low_over_06    |-> 10 * pc.low > 6 * total,
      is_balanced    |-> 10 * pc.moderate >= 3 * total /\ 10 * pc.moderate <= 7 * total,
      is_high_biased |-> 2 * pc.high > total,
      is_low_biased  |-> 2 * pc.low > total ]

\* a variant of the damping of phase 1 that reads the two classifications
DampingByClassification(pattern_ratio) ==
    IF pattern_ratio.is_high_biased THEN 8000
    ELSE IF pattern_ratio.is_low_biased THEN 8500
    ELSE Scale

\* the factor the pattern-specific branch of _apply_phase1_adjustments
\* multiplies adj_factor by: lines 450-453
PatternDamping(pattern_ratio) ==
    IF pattern_ratio.high_over_06 THEN 8000
    ELSE IF pattern_ratio.low_over_06 THEN 8500
    ELSE Scale

\* one iteration of the loop of _apply_phase1_adjustments: the new score of trait i
Phase1Trait(i, np_adjusted, np_direct, corr, pc) ==
    LET row == corr[i]
        deviations == [j \in TraitIdx |-> np_adjusted[j] - 5000]
        weights == [j \in TraitIdx |->
                      IF row[j] < 0 THEN Mul(Abs(row[j]), 18000)
                      ELSE IF row[j] > 4000 THEN Mul(Abs(row[j]), 16000)
                      ELSE Abs(row[j])]
        targets == [j \in TraitIdx |->
                      Clip(5000 + Mul(Mul(row[j], deviations[j]), 14000), 1800, 8200)]
        dev_factors == [j \in TraitIdx |-> Scale + Mul(Abs(deviations[j]), 11000)]
        adjustments == [j \in TraitIdx |->
                      Mul(Mul(weights[j], targets[j] - np_adjusted[i]), dev_factors[j])]
        offdiag(v) == SumSeq([j \in TraitIdx |-> IF j = i THEN 0 ELSE v[j]])
        total_adjustment == offdiag(adjustments)
        total_strength == offdiag(weights)
        pattern_ratio == _detect_response_pattern(pc)
        f0 == Mul(correlation_enforcement, RoundDiv(total_strength, n_traits))
        f1 == Mul(f0, PatternDamping(pattern_ratio))
        d  == np_direct[i]
        adj_factor == IF d > 8000 \/ d < 2000 THEN Mul(f1, 7500)
                      ELSE IF d > 7000 \/ d < 3000 THEN Mul(f1, 8500)
                      ELSE f1
        a1 == np_adjusted[i] + RoundDiv(total_adjustment * adj_factor, total_strength)
        direct_deviation == Abs(d - 5000)
        pull_factor == Mul(3500, direct_deviation - 2500)
        a2 == IF direct_deviation > 2500
              THEN Mul(a1, Scale - pull_factor) + Mul(d, pull_factor)
              ELSE a1
        a3 == IF d > 8000 /\ a2 < 6000 THEN Max(a2, 6000)
              ELSE IF d < 2000 /\ a2 > 4000 THEN Min(a2, 4000)
              ELSE a2
    IN  IF SumSeq([j \in TraitIdx |-> Abs(row[j])]) = 0 THEN np_adjusted[i]
        ELSE IF total_strength > 0 THEN Clip(a3, 1200, 8800)
        ELSE np_adjusted[i]

\* _apply_phase1_adjustments: deviations are taken once, before the loop, and
\* iteration i writes only entry i, so every entry is computed from the input
_apply_phase1_adjustments(np_adjusted, np_direct, corr, pc) ==
    [i \in TraitIdx |-> Phase1Trait(i, np_adjusted, np_direct, corr, pc)]

\* _adjust_negative_correlation: the vector after the call on the pair (i, j)
_adjust_negative_correlation(np_adjusted, np_direct, i, j, correlation, params) ==
    LET min_score == params.min_score
        strong_direct_i == np_direct[i] > 8000 \/ np_direct[i] < 2000
        strong_direct_j == np_direct[j] > 8000 \/ np_direct[j] < 2000
        ai == np_adjusted[i]
        aj == np_adjusted[j]
        same_side == (ai > 5000 /\ aj > 5000) \/ (ai < 5000 /\ aj < 5000)
        adjust_i == Abs(ai - 5000) < Abs(aj - 5000) \/ (strong_direct_j /\ ~strong_direct_i)
        \* the forced value of the trait `me`, pushed away from `other`
        forced(me, other, strong_me) ==
            LET effective_force == Mul(params.force_factor, IF strong_me THEN 7000 ELSE Scale)
                moved == 5000 - Mul(Mul(np_adjusted[other] - 5000, Abs(correlation)), effective_force)
                pull_strength == (np_direct[me] - 6500) * 2
            IN  IF np_direct[me] > 6500
                THEN Max(moved, min_score + Mul(pull_strength, 2500))
                ELSE moved
        bi == IF same_side /\ adjust_i THEN forced(i, j, strong_direct_i) ELSE ai
        bj == IF same_side /\ ~adjust_i THEN forced(j, i, strong_direct_j) ELSE aj
        min_i == min_score + (IF strong_direct_i THEN 1000 ELSE 0)
        min_j == min_score + (IF strong_direct_j THEN 1000 ELSE 0)
    IN  [k \in TraitIdx |->
            IF k = i THEN Max(min_i, Min(9000, bi))
            ELSE IF k = j THEN Max(min_j, Min(9000, bj))
            ELSE np_adjusted[k]]

\* _adjust_positive_correlation: the vector after the call on the pair (i, j)
_adjust_positive_correlation(np_adjusted, np_direct, i, j, correlation, params) ==
    LET min_score == params.min_score
        ai == np_adjusted[i]
        aj == np_adjusted[j]
        opposite == (ai > 5000 /\ aj < 5000) \/ (ai < 5000 /\ aj > 5000)
        force_factor == Mul(params.force_factor, 12000)
        adjust_i == Abs(ai - 5000) < Abs(aj - 5000)
        \* the forced value of the trait `me`, pulled to the side of `other`
        forced(me, other) ==
            LET deviation == np_adjusted[other] - 5000
                moved == 5000 + Mul(Mul(deviation, Abs(correlation)), force_factor)
                dm == np_direct[me]
            IN  IF dm < 4000 /\ moved > 5000
                THEN Min(moved, 5000 + Mul(Mul(4000 - dm, 15000), 2000))
                ELSE IF dm > 6000 /\ moved < 5000
                THEN Max(moved, 5000 - Mul(Mul(dm - 6000, 15000), 2000))
                ELSE moved
        bi == IF opposite /\ adjust_i THEN forced(i, j) ELSE ai
        bj == IF opposite /\ ~adjust_i THEN forced(j, i) ELSE aj
    IN  [k \in TraitIdx |->
            IF k = i THEN Max(min_score, Min(9000, bi))
            ELSE IF k = j THEN Max(min_score, Min(9000, bj))
            ELSE np_adjusted[k]]

\* the body of the double loop of _apply_phase2_adjustments for the pair (i, j)
Phase2Pair(np_adjusted, np_direct, corr, i, j) ==
    LET correlation == corr[i][j]
        params == _get_pair_params(<<traits[i], traits[j]>>, <<traits[j], traits[i]>>)
        threshold == params.threshold
    IN  IF Abs(correlation) < 4500 THEN np_adjusted
        ELSE IF Abs(np_adjusted[i] - 5000) >= threshold /\ Abs(np_adjusted[j] - 5000) >= threshold
        THEN IF correlation < 0
             THEN _adjust_negative_correlation(np_adjusted, np_direct, i, j, correlation, params)
             ELSE _adjust_positive_correlation(np_adjusted, np_direct, i, j, correlation, params)
        ELSE np_adjusted

\* the pairs (i, j), i < j, in the order the double loop visits them
RECURSIVE PairsFrom(_, _)
PairsFrom(i, j) ==
    IF i >= n_traits THEN <<>>
    ELSE IF j > n_traits THEN PairsFrom(i + 1, i + 2)
    ELSE << <<i, j>> >> \o PairsFrom(i, j + 1)

RECURSIVE Phase2Loop(_, _, _, _)
Phase2Loop(np_adjusted, np_direct, corr, pairs) ==
    IF pairs = <<>> THEN np_adjusted
    ELSE Phase2Loop(Phase2Pair(np_adjusted, np_direct, corr, Head(pairs)[1], Head(pairs)[2]),
                    np_direct, corr, Tail(pairs))

\* _apply_phase2_adjustments
_apply_phase2_adjustments(np_adjusted, np_direct, corr) ==
    Phase2Loop(np_adjusted, np_direct, corr, PairsFrom(1, 2))

\* the body of the loop of _apply_phase3_adjustments for one critical pair
Phase3Pair(np_adjusted, np_direct, pair) ==
    LET idx1 == TraitIndex(pair[1])
        idx2 == TraitIndex(pair[2])
        expected_corr == pair[3]
        score1 == np_adjusted[idx1]
        score2 == np_adjusted[idx2]
        \* direct_strength = abs(direct - 0.5) * 2
        direct_strength1 == Abs(np_direct[idx1] - 5000) * 2
        direct_strength2 == Abs(np_direct[idx2] - 5000) * 2
        adjust_1 == Abs(score1 - 5000) < Abs(score2 - 5000) \/ direct_strength1 < direct_strength2
        same_side == (score1 > 5000 /\ score2 > 5000) \/ (score1 < 5000 /\ score2 < 5000)
        opposite == (score1 > 5000 /\ score2 < 5000) \/ (score1 < 5000 /\ score2 > 5000)
        force(base_force, strength) == Mul(base_force, Scale - Mul(strength, 4000))
        neg(other, strength) ==
            5000 - Mul(Mul(other - 5000, Abs(expected_corr)), force(19000, strength))
        pos(other, strength) ==
            5000 + Mul(Mul(other - 5000, expected_corr), force(18000, strength))
        n1 == IF expected_corr < 0
              THEN IF same_side /\ adjust_1 THEN neg(score2, direct_strength1) ELSE score1
              ELSE IF opposite /\ adjust_1 THEN pos(score2, direct_strength1) ELSE score1
        n2 == IF expected_corr < 0
              THEN IF same_side /\ ~adjust_1 THEN neg(score1, direct_strength2) ELSE score2
              ELSE IF opposite /\ ~adjust_1 THEN pos(score1, direct_strength2) ELSE score2
    IN  IF idx1 = 0 \/ idx2 = 0 THEN np_adjusted
        ELSE IF Abs(score1 - 5000) > 1000 \/ Abs(score2 - 5000) > 1000
        THEN [k \in TraitIdx |->
                IF k = idx2 THEN Clip(n2, 1500, 8500)
                ELSE IF k = idx1 THEN Clip(n1, 1500, 8500)
                ELSE np_adjusted[k]]
        ELSE np_adjusted

RECURSIVE Phase3Loop(_, _, _)
Phase3Loop(np_adjusted, np_direct, pairs) ==
    IF pairs = <<>> THEN np_adjusted
    ELSE Phase3Loop(Phase3Pair(np_adjusted, np_direct, Head(pairs)), np_direct, Tail(pairs))

\* _apply_phase3_adjustments
_apply_phase3_adjustments(np_adjusted, np_direct) ==
    Phase3Loop(np_adjusted, np_direct, critical_pairs)

\* a variant of _apply_phase4_adjustments that keeps the floors of the high
\* buckets and leaves out the ceilings of the low ones
Phase4FloorsOnly(np_adjusted, np_direct) ==
    [k \in TraitIdx |->
        LET d == np_direct[k]
            a == np_adjusted[k]
        IN  IF d > 9000 THEN Max(a, 6500)
            ELSE IF d > 8000 /\ d <= 9000 THEN Max(a, 5000)
            ELSE IF d > 7000 /\ d <= 8000 THEN Max(a, 3500)
            ELSE IF d > 6000 /\ d <= 7000 THEN Max(a, 2500)
            ELSE a]

\* _apply_phase4_adjustments: the masks are disjoint, so one np.where applies
_apply_phase4_adjustments(np_adjusted, np_direct) ==
    [k \in TraitIdx |->
        LET d == np_direct[k]
            a == np_adjusted[k]
        IN  IF d > 9000 THEN Max(a, 6500)
            ELSE IF d > 8000 /\ d <= 9000 THEN Max(a, 5000)
            ELSE IF d > 7000 /\ d <= 8000 THEN Max(a, 3500)
            ELSE IF d > 6000 /\ d <= 7000 THEN Max(a, 2500)
            ELSE IF d < 1000 THEN Min(a, 3500)
            ELSE IF d >= 1000 /\ d < 2000 THEN Min(a, 5000)
            ELSE IF d >= 2000 /\ d < 3000 THEN Min(a, 6500)
            ELSE a]

\* the four phases of calculate_scores, in order
AdjustmentPipeline(base_scores, corr, pc) ==
    LET p1 == _apply_phase1_adjustments(base_scores, base_scores, corr, pc)
        p2 == _apply_phase2_adjustments(p1, base_scores, corr)
        p3 == _apply_phase3_adjustments(p2, base_scores)
    IN  _apply_phase4_adjustments(p3, base_scores)

\* sum(self.sum_weight.values())
TotalWeight(sw) == SumSeq([i \in TraitIdx |-> sw[traits[i]]])

\* a variant of the gate that opens on any accumulated weight
GateOpenOnAnyWeight(sw) == TotalWeight(sw) > 0

\* the test of calculate_scores that opens the pipeline
GateOpen(sw) == TotalWeight(sw) > GateWeight

\* calculate_scores: the value it assigns to self.trait_scores
calculate_scores(svw, sw, pc, corr, test_mode) ==
    LET base_scores == _calculate_base_scores(svw, sw, test_mode) IN
    IF test_mode THEN base_scores
    ELSE IF GateOpen(sw) THEN AdjustmentPipeline(base_scores, corr, pc)
    ELSE base_scores

\* ------------------------------------------------------------- the engine

VARIABLES
    test_mode,           \* the constructor's test_mode
    trait_correlations,  \* the matrix the registry supplied
    selected_mode,       \* "None" until select_test_mode
    active_questions,
    current_question,    \* the cursor, counted from 0 as in the source
    user_answers,
    demographics,        \* question id -> choice index
    trait_scores,
    facet_scores,
    sum_value_weight,    \* in quarters of a thousandth
    sum_weight,          \* in thousandths
    accumulator_doubles, \* sum_value_weight and sum_weight as the doubles held
    pattern_counts,
    raised,              \* the exception the last call raised, "" for none
    last_call,           \* the method the caller invoked last, "__init__" at first
    peer                 \* a second engine over the same registry

vars == << test_mode, trait_correlations, selected_mode, active_questions,
           current_question, user_answers, demographics, trait_scores,
           facet_scores, sum_value_weight, sum_weight, accumulator_doubles,
           pattern_counts, raised, last_call, peer >>

\* the fields of one engine, as a record
Self ==
    [ selected_mode |-> selected_mode, active_questions |-> active_questions,
      current_question |-> current_question, user_answers |-> user_answers,
      demographics |-> demographics, trait_scores |-> trait_scores,
      facet_scores |-> facet_scores, sum_value_weight |-> sum_value_weight,
      sum_weight |-> sum_weight, accumulator_doubles |-> accumulator_doubles,
      pattern_counts |-> pattern_counts,
      raised |-> raised, last_call |-> last_call ]

Becomes(r) ==
    /\ selected_mode' = r.selected_mode
    /\ active_questions' = r.active_questions
    /\ current_question' = r.current_question
    /\ user_answers' = r.user_answers
    /\ demographics' = r.demographics
    /\ trait_scores' = r.trait_scores
    /\ facet_scores' = r.facet_scores
    /\ sum_value_weight' = r.sum_value_weight
    /\ sum_weight' = r.sum_weight
    /\ accumulator_doubles' = r.accumulator_doubles
    /\ pattern_counts' = r.pattern_counts
    /\ raised' = r.raised
    /\ last_call' = r.last_call

ZeroCounts == [high |-> 0, low |-> 0, moderate |-> 0, total |-> 0]
NeutralFacets == [t \in DOMAIN facets |-> [f \in facets[t] |-> 5000]]
NeutralTraits == [i \in TraitIdx |-> 5000]
ZeroAccumulator == [t \in TraitNames |-> 0]
ZeroDoubles == [svw |-> [t \in TraitNames |-> DoubleZero],
                sw  |-> [t \in TraitNames |-> DoubleZero]]

\* __init__ followed by load_questions_and_traits and initialize_scores
Constructed ==
    [ selected_mode |-> "None", active_questions |-> <<>>,
      current_question |-> 0, user_answers |-> <<>>,
      demographics |-> <<>>, trait_scores |-> NeutralTraits,
      facet_scores |-> NeutralFacets, sum_value_weight |-> ZeroAccumulator,
      sum_weight |-> ZeroAccumulator, accumulator_doubles |-> ZeroDoubles,
      pattern_counts |-> ZeroCounts,
      raised |-> "", last_call |-> "__init__" ]

\* a variant of reset_quiz that keeps the pattern counters of the last attempt
ResetKeepingPattern(self) ==
    [self EXCEPT !.current_question = 0,
                 !.user_answers = <<>>,
                 !.trait_scores = NeutralTraits,
                 !.facet_scores = NeutralFacets,
                 !.sum_value_weight = ZeroAccumulator,
                 !.sum_weight = ZeroAccumulator,
                 !.accumulator_doubles = ZeroDoubles,
                 !.raised = "",
                 !.last_call = "reset_quiz"]

\* reset_quiz
QuizModel_reset_quiz(self) ==
    [self EXCEPT !.current_question = 0,
                 !.user_answers = <<>>,
                 !.trait_scores = NeutralTraits,
                 !.facet_scores = NeutralFacets,
                 !.sum_value_weight = ZeroAccumulator,
                 !.sum_weight = ZeroAccumulator,
                 !.accumulator_doubles = ZeroDoubles,
                 !.pattern_counts = ZeroCounts,
                 !.raised = "",
                 !.last_call = "reset_quiz"]

\* a variant of _apply_correlations that adds the signed offset alone, without
\* the neutral 3 it is taken from
RECURSIVE CorrelationsWithoutNeutral(_, _, _)
CorrelationsWithoutNeutral(acc, correlations, score) ==
    IF correlations = <<>> THEN acc
    ELSE LET abbr == Head(correlations)[1]
             symbol == Head(correlations)[2]
             full_trait == trait_abbr_to_full(abbr)
             adjustment == adjustment_map(symbol)
             deviation == score - 3 * Quarter
             correlated_score == (deviation * adjustment * 2) \div Quarter
             next == IF full_trait \in TraitNames
                     THEN [svw |-> [acc.svw EXCEPT ![full_trait] = @ + correlated_score * W_c],
                           sw  |-> [acc.sw EXCEPT ![full_trait] = @ + W_c]]
                     ELSE acc
         IN  CorrelationsWithoutNeutral(next, Tail(correlations), score)

\* _apply_correlations: the accumulators after the loop over correlations.items()
RECURSIVE _apply_correlations(_, _, _)
_apply_correlations(acc, correlations, score) ==
    IF correlations = <<>> THEN acc
    ELSE LET abbr == Head(correlations)[1]
             symbol == Head(correlations)[2]
             full_trait == trait_abbr_to_full(abbr)
             adjustment == adjustment_map(symbol)
             deviation == score - 3 * Quarter
             \* 3 + deviation * adjustment * 2
             correlated_score == 3 * Quarter + (deviation * adjustment * 2) \div Quarter
             next == IF full_trait \in TraitNames
                     THEN [svw |-> [acc.svw EXCEPT ![full_trait] = @ + correlated_score * W_c],
                           sw  |-> [acc.sw EXCEPT ![full_trait] = @ + W_c]]
                     ELSE acc
         IN  _apply_correlations(next, Tail(correlations), score)

\* the += of _apply_correlations on the doubles: lines 312-313
RECURSIVE CorrelationDoubles(_, _, _)
CorrelationDoubles(doubles, correlations, score) ==
    IF correlations = <<>> THEN doubles
    ELSE LET abbr == Head(correlations)[1]
             symbol == Head(correlations)[2]
             full_trait == trait_abbr_to_full(abbr)
             adjustment == adjustment_map(symbol)
             deviation == score - 3 * Quarter
             correlated_score == 3 * Quarter + (deviation * adjustment * 2) \div Quarter
             next == IF full_trait \in TraitNames
                     THEN [svw |-> [doubles.svw EXCEPT ![full_trait] =
                                       DoubleSum(@, DoubleTimesQuarters(W_c_double, correlated_score))],
                           sw  |-> [doubles.sw EXCEPT ![full_trait] = DoubleSum(@, W_c_double)]]
                     ELSE doubles
         IN  CorrelationDoubles(next, Tail(correlations), score)

\* the += of process_answer on the doubles: lines 280-281, then line 285
AccumulateDoubles(doubles, primary_trait, correlations, score) ==
    LET direct == IF primary_trait \in TraitNames
                  THEN [svw |-> [doubles.svw EXCEPT ![primary_trait] =
                                    DoubleSum(@, DoubleTimesQuarters(W_d_double, score))],
                        sw  |-> [doubles.sw EXCEPT ![primary_trait] = DoubleSum(@, W_d_double)]]
                  ELSE doubles
    IN  CorrelationDoubles(direct, correlations, score)

\* a variant of _update_facet_score without the clamp of line 332
FacetUnclamped(fs, primary_trait, category, score) ==
    LET facet == category[2] IN
    IF primary_trait \in DOMAIN facets /\ facet \in DOMAIN fs[primary_trait]
    THEN LET facet_score == ((score - Quarter) * Scale) \div (4 * Quarter)
             current == fs[primary_trait][facet]
         IN  [fs EXCEPT ![primary_trait][facet] = Mul(current, 8000) + Mul(facet_score, 2000)]
    ELSE fs

\* a variant of _update_facet_score that steps past the new value
FacetOvershooting(fs, primary_trait, category, score) ==
    LET facet == category[2] IN
    IF primary_trait \in DOMAIN facets /\ facet \in DOMAIN fs[primary_trait]
    THEN LET facet_score == ((score - Quarter) * Scale) \div (4 * Quarter)
             current == fs[primary_trait][facet]
             new_score == Mul(facet_score, 12000) - Mul(current, 2000)
         IN  [fs EXCEPT ![primary_trait][facet] = Max(1000, Min(9000, new_score))]
    ELSE fs

\* _update_facet_score
_update_facet_score(fs, primary_trait, category, score) ==
    LET facet == category[2] IN
    IF primary_trait \in DOMAIN facets /\ facet \in DOMAIN fs[primary_trait]
    THEN LET facet_score == ((score - Quarter) * Scale) \div (4 * Quarter)
             current == fs[primary_trait][facet]
             new_score == Mul(current, 8000) + Mul(facet_score, 2000)
         IN  [fs EXCEPT ![primary_trait][facet] = Max(1000, Min(9000, new_score))]
    ELSE fs

\* the response-pattern tally of process_answer
TallyPattern(pc, choice_value) ==
    LET bucket == IF choice_value \in {"High", "Very High"} THEN "high"
                  ELSE IF choice_value \in {"Low", "Very Low"} THEN "low"
                  ELSE "moderate"
    IN  [pc EXCEPT ![bucket] = @ + 1, !.total = @ + 1]

\* question["choices"][choice_index] for an index Python accepts: a negative
\* index counts from the end of the list
ListIndex(len, choice_index) ==
    IF choice_index < 0 THEN choice_index + len + 1 ELSE choice_index + 1

\* a variant of the scoring branch that leaves out the calculate_scores call
\* of line 292
ScoreAnswerWithoutScores(self, question, choice_index, corr, tm) ==
    LET category == question.category
        primary_trait == category[1]
        choice == question.choices[ListIndex(Len(question.choices), choice_index)]
        choice_value == choice.value
        score == value_map(choice_value)
        direct == IF primary_trait \in TraitNames
                  THEN [svw |-> [self.sum_value_weight EXCEPT ![primary_trait] = @ + score * W_d],
                        sw  |-> [self.sum_weight EXCEPT ![primary_trait] = @ + W_d]]
                  ELSE [svw |-> self.sum_value_weight, sw |-> self.sum_weight]
        acc == _apply_correlations(direct, choice.correlations, score)
        pc == TallyPattern(self.pattern_counts, choice_value)
        fs == IF Len(category) > 1 /\ primary_trait \in TraitNames
              THEN _update_facet_score(self.facet_scores, primary_trait, category, score)
              ELSE self.facet_scores
    IN  [self EXCEPT !.pattern_counts = pc,
                     !.sum_value_weight = acc.svw,
                     !.sum_weight = acc.sw,
                     !.accumulator_doubles =
                         AccumulateDoubles(self.accumulator_doubles, primary_trait,
                                           choice.correlations, score),
                     !.facet_scores = fs,
                     !.current_question = @ + 1]

\* a variant of the scoring branch that reads the value scale upside down
ScoreAnswerReversed(self, question, choice_index, corr, tm) ==
    LET category == question.category
        primary_trait == category[1]
        choice == question.choices[ListIndex(Len(question.choices), choice_index)]
        choice_value == choice.value
        score == 6 * Quarter - value_map(choice_value)
        direct == IF primary_trait \in TraitNames
                  THEN [svw |-> [self.sum_value_weight EXCEPT ![primary_trait] = @ + score * W_d],
                        sw  |-> [self.sum_weight EXCEPT ![primary_trait] = @ + W_d]]
                  ELSE [svw |-> self.sum_value_weight, sw |-> self.sum_weight]
        acc == _apply_correlations(direct, choice.correlations, score)
        pc == TallyPattern(self.pattern_counts, choice_value)
        fs == IF Len(category) > 1 /\ primary_trait \in TraitNames
              THEN _update_facet_score(self.facet_scores, primary_trait, category, score)
              ELSE self.facet_scores
    IN  [self EXCEPT !.pattern_counts = pc,
                     !.sum_value_weight = acc.svw,
                     !.sum_weight = acc.sw,
                     !.accumulator_doubles =
                         AccumulateDoubles(self.accumulator_doubles, primary_trait,
                                           choice.correlations, score),
                     !.facet_scores = fs,
                     !.trait_scores = calculate_scores(acc.svw, acc.sw, pc, corr, tm),
                     !.current_question = @ + 1]

\* a variant of the scoring branch that recomputes trait_scores before the
\* accumulators and counters take the answer in
ScoreAnswerStale(self, question, choice_index, corr, tm) ==
    LET category == question.category
        primary_trait == category[1]
        choice == question.choices[ListIndex(Len(question.choices), choice_index)]
        choice_value == choice.value
        score == value_map(choice_value)
        direct == IF primary_trait \in TraitNames
                  THEN [svw |-> [self.sum_value_weight EXCEPT ![primary_trait] = @ + score * W_d],
                        sw  |-> [self.sum_weight EXCEPT ![primary_trait] = @ + W_d]]
                  ELSE [svw |-> self.sum_value_weight, sw |-> self.sum_weight]
        acc == _apply_correlations(direct, choice.correlations, score)
        pc == TallyPattern(self.pattern_counts, choice_value)
        fs == IF Len(category) > 1 /\ primary_trait \in TraitNames
              THEN _update_facet_score(self.facet_scores, primary_trait, category, score)
              ELSE self.facet_scores
    IN  [self EXCEPT !.pattern_counts = pc,
                     !.sum_value_weight = acc.svw,
                     !.sum_weight = acc.sw,
                     !.accumulator_doubles =
                         AccumulateDoubles(self.accumulator_doubles, primary_trait,
                                           choice.correlations, score),
                     !.facet_scores = fs,
                     !.trait_scores = calculate_scores(self.sum_value_weight, self.sum_weight,
                                                       self.pattern_counts, corr, tm),
                     !.current_question = @ + 1]

\* process_answer on a well-scored choice: lines 261-295
ScoreAnswer(self, question, choice_index, corr, tm) ==
    LET category == question.category
        primary_trait == category[1]
        choice == question.choices[ListIndex(Len(question.choices), choice_index)]
        choice_value == choice.value
        score == value_map(choice_value)
        direct == IF primary_trait \in TraitNames
                  THEN [svw |-> [self.sum_value_weight EXCEPT ![primary_trait] = @ + score * W_d],
                        sw  |-> [self.sum_weight EXCEPT ![primary_trait] = @ + W_d]]
                  ELSE [svw |-> self.sum_value_weight, sw |-> self.sum_weight]
        acc == _apply_correlations(direct, choice.correlations, score)
        pc == TallyPattern(self.pattern_counts, choice_value)
        fs == IF Len(category) > 1 /\ primary_trait \in TraitNames
              THEN _update_facet_score(self.facet_scores, primary_trait, category, score)
              ELSE self.facet_scores
    IN  [self EXCEPT !.pattern_counts = pc,
                     !.sum_value_weight = acc.svw,
                     !.sum_weight = acc.sw,
                     !.accumulator_doubles =
                         AccumulateDoubles(self.accumulator_doubles, primary_trait,
                                           choice.correlations, score),
                     !.facet_scores = fs,
                     !.trait_scores = calculate_scores(acc.svw, acc.sw, pc, corr, tm),
                     !.current_question = @ + 1]

\* a variant of process_answer that scores a demographic question like any
\* other
ProcessAnswerScoringDemographics(self, choice_index, corr, tm) ==
    LET appended == [self EXCEPT !.user_answers = Append(@, choice_index),
                                 !.raised = "", !.last_call = "process_answer"]
    IN  IF self.current_question >= Len(self.active_questions)
        THEN [appended EXCEPT !.raised = "IndexError"]
        ELSE LET question == self.active_questions[self.current_question + 1]
                 stored == [appended EXCEPT !.demographics =
                               [k \in DOMAIN @ \cup {question.id} |->
                                   IF k = question.id THEN choice_index ELSE @[k]]]
             IN
             IF choice_index >= Len(question.choices)
             THEN [(IF question.type = "demographic" THEN stored ELSE appended)
                      EXCEPT !.current_question = @ + 1]
             ELSE IF choice_index < -Len(question.choices)
             THEN [appended EXCEPT !.raised = "IndexError"]
             ELSE ScoreAnswer(IF question.type = "demographic" THEN stored ELSE appended,
                              question, choice_index, corr, tm)

\* process_answer
QuizModel_process_answer(self, choice_index, corr, tm) ==
    LET appended == [self EXCEPT !.user_answers = Append(@, choice_index),
                                 !.raised = "", !.last_call = "process_answer"]
    IN  IF self.current_question >= Len(self.active_questions)
        THEN \* self.active_questions[self.current_question] raises
             [appended EXCEPT !.raised = "IndexError"]
        ELSE LET question == self.active_questions[self.current_question + 1] IN
             IF question.type = "demographic"
             THEN [appended EXCEPT !.demographics =
                                     [k \in DOMAIN @ \cup {question.id} |->
                                         IF k = question.id THEN choice_index ELSE @[k]],
                                   !.current_question = @ + 1]
             ELSE IF choice_index >= Len(question.choices)
             THEN [appended EXCEPT !.current_question = @ + 1]
             ELSE IF choice_index < -Len(question.choices)
             THEN \* question["choices"][choice_index] raises
                  [appended EXCEPT !.raised = "IndexError"]
             ELSE ScoreAnswer(appended, question, choice_index, corr, tm)

\* a variant of calculate_scores that adjusts the scores it finds in place
\* of the base scores
CalculateScoresInPlace(self, corr, tm) ==
    [self EXCEPT !.trait_scores =
                    IF ~tm /\ GateOpen(self.sum_weight)
                    THEN AdjustmentPipeline(self.trait_scores, corr, self.pattern_counts)
                    ELSE _calculate_base_scores(self.sum_value_weight, self.sum_weight, tm),
                 !.raised = "",
                 !.last_call = "calculate_scores"]

\* a direct call of calculate_scores
QuizModel_calculate_scores(self, corr, tm) ==
    [self EXCEPT !.trait_scores =
                    calculate_scores(self.sum_value_weight, self.sum_weight,
                                     self.pattern_counts, corr, tm),
                 !.raised = "",
                 !.last_call = "calculate_scores"]

\* a variant of end_assessment_now that recomputes and leaves the cursor
EndNowKeepingCursor(self, corr, tm) ==
    [QuizModel_calculate_scores(self, corr, tm) EXCEPT !.last_call = "end_assessment_now"]

\* end_assessment_now
QuizModel_end_assessment_now(self, corr, tm) ==
    LET scored == QuizModel_calculate_scores(self, corr, tm) IN
    IF scored.active_questions # <<>>
    THEN [scored EXCEPT !.current_question = Len(scored.active_questions),
                        !.last_call = "end_assessment_now"]
    ELSE [scored EXCEPT !.last_call = "end_assessment_now"]

\* a variant of is_quiz_complete that wants the cursor strictly past the end
CompleteStrictlyPast(self) ==
    IF self.active_questions = <<>> THEN FALSE
    ELSE self.current_question > Len(self.active_questions)

\* is_quiz_complete
is_quiz_complete(self) ==
    IF self.active_questions = <<>> THEN FALSE
    ELSE self.current_question >= Len(self.active_questions)

\* --------------------------------------------------------------- progress
\* get_progress_percentage divides and multiplies in double precision and
\* truncates. The quotient c / n is the double nearest to it: a 53-bit
\* mantissa, found by long division, and a residue; 100 times it is rounded
\* to a double again.

\* the a with c * 2^a / n in [1, 2), for 0 < c <= n
RECURSIVE BinaryExponent(_, _)
BinaryExponent(c, n) == IF c >= n THEN 0 ELSE 1 + BinaryExponent(2 * c, n)

\* long division: the remainder and the last bit after so many more bits
RECURSIVE LongDivision(_, _, _, _)
LongDivision(rem, last, n, steps) ==
    IF steps = 0 THEN [rem |-> rem, last |-> last]
    ELSE IF 2 * rem >= n THEN LongDivision(2 * rem - n, 1, n, steps - 1)
    ELSE LongDivision(2 * rem, 0, n, steps - 1)

\* c / n as a double M / 2^(52 + a): the residue c * 2^(52 + a) - M * n of
\* the mantissa M, rounded to nearest, ties to even
QuotientResidue(c, n) ==
    LET a == BinaryExponent(c, n)
        d == LongDivision(c * Pow2(a) - n, 1, n, MantissaBits)
    IN  IF 2 * d.rem > n \/ (2 * d.rem = n /\ d.last = 1) THEN d.rem - n ELSE d.rem

\* int((c / n) * 100) for 0 <= c <= n: the product is 100 c / n less
\* 100 r / (n 2^(52 + a)); it is rounded to the double below the integer
\* k = 100 c / n only if 100 c / n is that integer k and the product lies
\* more than half a spacing of doubles below it
TruncatedPercent(c, n) ==
    LET k == (100 * c) \div n
        exact == (100 * c) % n = 0
    IN  IF c = 0 \/ ~exact \/ k = 0 THEN k
        ELSE LET a == BinaryExponent(c, n)
                 b == BinaryLog(k)
                 r == QuotientResidue(c, n)
                 short == IF k = Pow2(b) THEN 400 * r > n * Pow2(a + b)
                          ELSE 200 * r > n * Pow2(a + b)
             IN  IF short THEN k - 1 ELSE k

\* get_progress_percentage
get_progress_percentage(self) ==
    IF self.active_questions = <<>> THEN 0
    ELSE Min(100, TruncatedPercent(self.current_question, Len(self.active_questions)))

\* ------------------------------------------------------ question selection

\* the choice indexes a caller passes: valid ones, one past a two-choice
\* list, and negative ones inside and outside a list
ChoiceIndexes == {-2, 0, 1}

RECURSIVE Reverse(_)
Reverse(s) == IF s = <<>> THEN <<>> ELSE Append(Reverse(Tail(s)), Head(s))

\* the orders random.shuffle leaves a list in, drawn from two of them
Shuffles(s) == {s, Reverse(s)}

\* the modes a caller selects here: the comprehensive one, whose question
\* list is the head of the bank, shuffled
Modes == {"comprehensive"}

\* prepare_questions_for_mode, the branch of the comprehensive mode, before
\* the shuffle
prepare_questions_for_mode(mode, total_questions) ==
    SubSeq(questions, 1, Min(Len(questions), total_questions))

\* select_test_mode, with the order the shuffle leaves
QuizModel_select_test_mode(self, mode, order) ==
    [QuizModel_reset_quiz([self EXCEPT !.selected_mode = mode,
                                       !.active_questions = order])
        EXCEPT !.last_call = "select_test_mode"]

\* ----------------------------------------------------------------- actions

Init ==
    /\ test_mode \in BOOLEAN
    /\ trait_correlations \in CorrelationMatrices
    /\ selected_mode = Constructed.selected_mode
    /\ active_questions = Constructed.active_questions
    /\ current_question = Constructed.current_question
    /\ user_answers = Constructed.user_answers
    /\ demographics = Constructed.demographics
    /\ trait_scores = Constructed.trait_scores
    /\ facet_scores = Constructed.facet_scores
    /\ sum_value_weight = Constructed.sum_value_weight
    /\ sum_weight = Constructed.sum_weight
    /\ accumulator_doubles = Constructed.accumulator_doubles
    /\ pattern_counts = Constructed.pattern_counts
    /\ raised = Constructed.raised
    /\ last_call = Constructed.last_call
    /\ peer = Constructed

Fixed == UNCHANGED << test_mode, trait_correlations >>

select_test_mode ==
    \E mode \in Modes :
      \E order \in Shuffles(prepare_questions_for_mode(mode, test_modes[mode])) :
        /\ Becomes(QuizModel_select_test_mode(Self, mode, order))
        /\ Fixed /\ UNCHANGED peer

reset_quiz ==
    /\ Becomes(QuizModel_reset_quiz(Self))
    /\ Fixed /\ UNCHANGED peer

process_answer ==
    \E choice_index \in ChoiceIndexes :
        /\ Len(user_answers) < MaxAnswers
        /\ Becomes(QuizModel_process_answer(Self, choice_index, trait_correlations, test_mode))
        /\ Fixed /\ UNCHANGED peer

recalculate_scores ==
    /\ Becomes(QuizModel_calculate_scores(Self, trait_correlations, test_mode))
    /\ Fixed /\ UNCHANGED peer

end_assessment_now ==
    /\ Becomes(QuizModel_end_assessment_now(Self, trait_correlations, test_mode))
    /\ Fixed /\ UNCHANGED peer

Next ==
    \/ select_test_mode
    \/ reset_quiz
    \/ process_answer
    \/ recalculate_scores
    \/ end_assessment_now

Spec == Init /\ [][Next]_vars

\* ------------------------------------------------- two engines, one registry
\* Two production-mode engines over the same registry, each selecting its
\* questions and taking its answers on its own.

InitPair == Init /\ ~test_mode

\* the choice indexes the two engines are given: the first choice, and the
\* second one (past the end of a one-choice list)
PairChoices == {0, 1}

self_select ==
    \E order \in Shuffles(prepare_questions_for_mode("comprehensive", test_modes["comprehensive"])) :
        /\ Becomes(QuizModel_select_test_mode(Self, "comprehensive", order))
        /\ Fixed /\ UNCHANGED peer

self_reset ==
    /\ Becomes(QuizModel_reset_quiz(Self))
    /\ Fixed /\ UNCHANGED peer

self_answer ==
    \E choice_index \in PairChoices :
        /\ Len(user_answers) < MaxAnswers
        /\ current_question < Len(active_questions)
        /\ Becomes(QuizModel_process_answer(Self, choice_index, trait_correlations, test_mode))
        /\ Fixed /\ UNCHANGED peer

peer_select ==
    \E order \in Shuffles(prepare_questions_for_mode("comprehensive", test_modes["comprehensive"])) :
        /\ peer' = QuizModel_select_test_mode(peer, "comprehensive", order)
        /\ Fixed /\ Becomes(Self)

peer_answer ==
    \E choice_index \in PairChoices :
        /\ Len(peer.user_answers) < MaxAnswers
        /\ peer.current_question < Len(peer.active_questions)
        /\ peer' = QuizModel_process_answer(peer, choice_index, trait_correlations, test_mode)
        /\ Fixed /\ Becomes(Self)

NextPair ==
    \/ self_select
    \/ self_reset
    \/ self_answer
    \/ peer_select
    \/ peer_answer

SpecPair == InitPair /\ [][NextPair]_vars

\* ------------------------------------------------- a registry of facet questions
\* One engine over a question file whose questions all name a facet: a run of
\* questions on Agreeableness:Trust with two on Vigilance:Caution among them.

FacetQuestions == 8

\* the positions of the Vigilance:Caution questions in the file
CautionAt == {3, 6}

facet_questions ==
    [k \in 1..(FacetQuestions + Cardinality(CautionAt)) |->
        IF k \in CautionAt
        THEN [id |-> k, type |-> "normal", category |-> <<"Vigilance", "Caution">>,
              choices |-> << [value |-> "Low-Moderate", correlations |-> NoCorr],
                             [value |-> "High", correlations |-> NoCorr] >>]
        ELSE [id |-> k, type |-> "normal", category |-> <<"Agreeableness", "Trust">>,
              choices |-> << [value |-> "Very Low", correlations |-> NoCorr],
                             [value |-> "Very High", correlations |-> NoCorr] >>]]

InitFacet == Init /\ \E i, j \in TraitIdx : trait_correlations[i][j] # 0

\* the choice indexes given to this engine: the two choices of each question
FacetChoices == {0, 1}

facet_select ==
    /\ Becomes(QuizModel_select_test_mode(Self, "comprehensive", facet_questions))
    /\ Fixed /\ UNCHANGED peer

facet_answer ==
    \E choice_index \in FacetChoices :
        /\ current_question < Len(active_questions)
        /\ Becomes(QuizModel_process_answer(Self, choice_index, trait_correlations, test_mode))
        /\ Fixed /\ UNCHANGED peer

NextFacet ==
    \/ facet_select
    \/ facet_answer

SpecFacet == InitFacet /\ [][NextFacet]_vars

\* ------------------------------------------------- registries of many sizes
\* One engine over question files of several lengths, answered to the end.

\* the lengths of the three modes, and of files shorter than the 240
\* questions the comprehensive mode takes
ProgressLengths == {test_modes.demo, 50, 100, test_modes.basic, test_modes.comprehensive}

\* a file of n questions on no registered trait
progress_questions(n) ==
    [k \in 1..n |->
        [id |-> k, type |-> "normal", category |-> <<"Unlisted">>,
         choices |-> << [value |-> "Moderate", correlations |-> NoCorr] >>]]

InitProgress == Init /\ ~test_mode

progress_select ==
    \E n \in ProgressLengths :
        /\ Becomes(QuizModel_select_test_mode(Self, "comprehensive", progress_questions(n)))
        /\ Fixed /\ UNCHANGED peer

progress_answer ==
    /\ current_question < Len(active_questions)
    /\ Becomes(QuizModel_process_answer(Self, 0, trait_correlations, test_mode))
    /\ Fixed /\ UNCHANGED peer

progress_end ==
    /\ Becomes(QuizModel_end_assessment_now(Self, trait_correlations, test_mode))
    /\ Fixed /\ UNCHANGED peer

NextProgress ==
    \/ progress_select
    \/ progress_answer
    \/ progress_end

SpecProgress == InitProgress /\ [][NextProgress]_vars

\* ------------------------------------------------- one file in every order
\* Two production-mode engines over a file of three questions: two on
\* Agreeableness and one on Dominance whose choices contribute to
\* Agreeableness by correlation. The first engine takes the questions in the
\* order of the file, the second in any order a shuffle can leave.

order_questions ==
    << [id |-> 1, type |-> "normal", category |-> <<"Agreeableness">>,
        choices |-> << [value |-> "Very Low", correlations |-> NoCorr],
                       [value |-> "High", correlations |-> NoCorr] >>],
       [id |-> 2, type |-> "normal", category |-> <<"Agreeableness">>,
        choices |-> << [value |-> "Low", correlations |-> NoCorr],
                       [value |-> "Very High", correlations |-> NoCorr] >>],
       [id |-> 3, type |-> "normal", category |-> <<"Dominance">>,
        choices |-> << [value |-> "Very Low", correlations |-> << <<"Ag", "0">> >>],
                       [value |-> "High", correlations |-> << <<"Ag", "+">> >>] >>] >>

\* every order of a list
Orders(s) ==
    { [k \in DOMAIN s |-> s[p[k]]] :
        p \in { f \in [DOMAIN s -> DOMAIN s] : \A a, b \in DOMAIN s : a # b => f[a] # f[b] } }

order_self_select ==
    /\ Becomes(QuizModel_select_test_mode(Self, "comprehensive", order_questions))
    /\ Fixed /\ UNCHANGED peer

order_peer_select ==
    \E order \in Orders(order_questions) :
        /\ peer' = QuizModel_select_test_mode(peer, "comprehensive", order)
        /\ Fixed /\ Becomes(Self)

NextOrder ==
    \/ order_self_select
    \/ self_answer
    \/ order_peer_select
    \/ peer_answer

SpecOrder == InitPair /\ [][NextOrder]_vars

\* ------------------------------------------------- a file of correlated answers
\* One production-mode engine over a file of questions on no registered
\* trait, whose one choice contributes to a registered trait by correlation
\* alone, with a single question on Dominance among them.

GateQuestions == 120

\* the places the question on Dominance takes in the file: the first, one in
\* the middle, the last
DirectAt == {1, GateQuestions \div 2, GateQuestions + 1}

gate_questions(direct_at) ==
    [k \in 1..(GateQuestions + 1) |->
        IF k = direct_at
        THEN [id |-> k, type |-> "normal", category |-> <<"Dominance">>,
              choices |-> << [value |-> "High", correlations |-> NoCorr] >>]
        ELSE [id |-> k, type |-> "normal", category |-> <<"Unlisted">>,
              choices |-> << [value |-> "High",
                              correlations |-> << <<(IF k % 2 = 0 THEN "Ag" ELSE "Vi"), "+">> >>] >>]]

InitGate == Init /\ ~test_mode

\* the choice index given to this engine: the one choice of each question
GateChoices == {0}

gate_select ==
    \E direct_at \in DirectAt :
        /\ Becomes(QuizModel_select_test_mode(Self, "comprehensive", gate_questions(direct_at)))
        /\ Fixed /\ UNCHANGED peer

gate_answer ==
    \E choice_index \in GateChoices :
        /\ current_question < Len(active_questions)
        /\ Becomes(QuizModel_process_answer(Self, choice_index, trait_correlations, test_mode))
        /\ Fixed /\ UNCHANGED peer

gate_recalculate ==
    /\ Becomes(QuizModel_calculate_scores(Self, trait_correlations, test_mode))
    /\ Fixed /\ UNCHANGED peer

gate_reset ==
    /\ Becomes(QuizModel_reset_quiz(Self))
    /\ Fixed /\ UNCHANGED peer

NextGate ==
    \/ gate_select
    \/ gate_answer
    \/ gate_recalculate
    \/ gate_reset

SpecGate == InitGate /\ [][NextGate]_vars

\* ------------------------------------------------------------------ claims

\* the vectors calculate_scores passes through in the current state
BaseScores == _calculate_base_scores(sum_value_weight, sum_weight, test_mode)
Phase3Input ==
    _apply_phase2_adjustments(
        _apply_phase1_adjustments(BaseScores, BaseScores, trait_correlations, pattern_counts),
        BaseScores, trait_correlations)
Phase3Output == _apply_phase3_adjustments(Phase3Input, BaseScores)
PipelineRuns == ~test_mode /\ GateOpen(sum_weight)

SameSide(a, b) == (a > 5000 /\ b > 5000) \/ (a < 5000 /\ b < 5000)

\* the part of the state that carries scores
ScoringState == << sum_value_weight, sum_weight, accumulator_doubles, pattern_counts,
                   facet_scores, trait_scores >>

\* the question the cursor is on, when it is on one
OnQuestion == current_question < Len(active_questions)
ActiveQuestion == active_questions[current_question + 1]

\* C1: trait_scores always has one entry per trait, each in [0.1, 0.9] in
\* production mode and in [0.0, 1.0] in relaxed mode.
C1_Bounded ==
    /\ DOMAIN trait_scores = TraitIdx
    /\ \A i \in TraitIdx :
          IF test_mode THEN trait_scores[i] >= 0 /\ trait_scores[i] <= Scale
          ELSE trait_scores[i] >= 1000 /\ trait_scores[i] <= 9000

\* a production-mode answer after which the pipeline ran and moved a score
\* off its base value
C1_Witness ==
    /\ ~test_mode /\ last_call = "process_answer" /\ raised = ""
    /\ GateOpen(sum_weight)
    /\ trait_scores # BaseScores

\* C2: whenever the pipeline runs, every critical negatively-correlated pair
\* of the registry of which either trait enters phase 3 more than 0.1 away
\* from neutral leaves phase 3 with its two traits on opposite sides of 0.5.
C2_CriticalPairsOpposite ==
    PipelineRuns =>
        \A k \in DOMAIN critical_neg_correlated_pairs :
            LET i == TraitIndex(critical_neg_correlated_pairs[k][1])
                j == TraitIndex(critical_neg_correlated_pairs[k][2])
            IN  (/\ i # 0 /\ j # 0
                 /\ \/ Abs(Phase3Input[i] - 5000) > 1000
                    \/ Abs(Phase3Input[j] - 5000) > 1000)
                => ~SameSide(Phase3Output[i], Phase3Output[j])

\* C3 as claimed: two production-mode engines over the same registry that
\* agree on sum_value_weight and sum_weight agree on trait_scores.
C3_ScoresFromAccumulatorsOnly ==
    (peer.sum_value_weight = sum_value_weight /\ peer.sum_weight = sum_weight)
        => peer.trait_scores = trait_scores

\* C3 as amended: two production-mode engines over the same registry that
\* agree on sum_value_weight, sum_weight and pattern_counts agree on
\* trait_scores, whatever their cursors and answer histories.
C3_ScoresFromAccumulatorsAndPattern ==
    (/\ peer.sum_value_weight = sum_value_weight
     /\ peer.sum_weight = sum_weight
     /\ peer.pattern_counts = pattern_counts)
        => peer.trait_scores = trait_scores

\* two engines with equal accumulators and counters, different cursors and
\* question orders, and scores the pipeline moved off their base values
C3_Witness ==
    /\ peer.sum_value_weight = sum_value_weight
    /\ peer.sum_weight = sum_weight
    /\ peer.pattern_counts = pattern_counts
    /\ peer.current_question # current_question
    /\ peer.active_questions # active_questions
    /\ GateOpen(sum_weight)
    /\ trait_scores # BaseScores

\* a step that is the call process_answer(c)
AnswerStep(c) == last_call' = "process_answer" /\ user_answers' = Append(user_answers, c)

\* C4: on a non-demographic question, process_answer with a choice index that
\* is no position of the choice list (at or past its length, or negative)
\* raises nothing, advances the cursor by one and leaves the scoring state.
C4_LenientSkip ==
    [][\A c \in ChoiceIndexes :
          (/\ AnswerStep(c)
           /\ OnQuestion
           /\ ActiveQuestion.type # "demographic"
           /\ (c >= Len(ActiveQuestion.choices) \/ c < 0))
          => (/\ raised' = ""
              /\ current_question' = current_question + 1
              /\ UNCHANGED ScoringState)]_vars

\* C5: no call raises, and process_answer with the cursor at or past the end
\* of active_questions leaves user_answers, the cursor and the scoring state.
C5_NoFatalError ==
    [][/\ raised' = ""
       /\ \A c \in ChoiceIndexes :
             (AnswerStep(c) /\ ~OnQuestion)
             => UNCHANGED << user_answers, current_question, ScoringState >>]_vars

RecomputeCalls == {"calculate_scores", "end_assessment_now"}

\* C6: a calculate_scores call, direct or through end_assessment_now, that
\* follows another one leaves trait_scores, the accumulators, the pattern
\* counters and the facet scores as they are.
C6_RecomputeIdempotent ==
    [][(last_call \in RecomputeCalls /\ last_call' \in RecomputeCalls)
          => UNCHANGED ScoringState]_vars

\* a direct recomputation after scored answers, with the pipeline active
C6_Witness ==
    /\ last_call = "calculate_scores"
    /\ pattern_counts.total > 0
    /\ PipelineRuns
    /\ trait_scores # BaseScores

\* C7: in production mode, while the total accumulated weight is at most 10,
\* trait_scores is exactly the base scores.
C7_ThresholdGate ==
    (~test_mode /\ TotalWeight(sum_weight) <= GateWeight) => trait_scores = BaseScores

\* a production-mode answer that left a total weight in (0, 10] and a
\* base score off neutral
C7_Witness ==
    /\ ~test_mode /\ last_call = "process_answer"
    /\ TotalWeight(sum_weight) > 0
    /\ TotalWeight(sum_weight) <= GateWeight
    /\ trait_scores # NeutralTraits

\* C8 as claimed: is_quiz_complete is true exactly when the cursor is at or
\* past the end of active_questions, an empty list included.
C8_CompleteIffCursorAtEnd ==
    is_quiz_complete(Self) <=> current_question >= Len(active_questions)

\* C8 as amended: is_quiz_complete is true exactly when active_questions is
\* not empty and the cursor is at or past its end.
C8_CompleteIffNonEmptyAndAtEnd ==
    is_quiz_complete(Self) <=>
        (active_questions # <<>> /\ current_question >= Len(active_questions))

\* the last question was just answered
C8_Witness ==
    /\ last_call = "process_answer"
    /\ active_questions # <<>>
    /\ current_question = Len(active_questions)
    /\ is_quiz_complete(Self)

\* is_quiz_complete in the state a step leads to
CompleteAfter ==
    is_quiz_complete([active_questions |-> active_questions',
                      current_question |-> current_question'])

\* the recomputation from the accumulators and counters a step leads to
RecomputedAfter ==
    calculate_scores(sum_value_weight', sum_weight', pattern_counts', trait_correlations', test_mode')

\* is_quiz_complete holds on across every call but reset_quiz and select_test_mode
StaysComplete ==
    (is_quiz_complete(Self) /\ last_call' \notin {"reset_quiz", "select_test_mode"})
        => CompleteAfter

\* C9 as claimed: after end_assessment_now, from any state, is_quiz_complete
\* is true and trait_scores is the recomputation from the accumulators; it
\* stays true until reset_quiz or select_test_mode.
C9_EndNowCompletes ==
    [][/\ last_call' = "end_assessment_now"
            => (CompleteAfter /\ trait_scores' = RecomputedAfter)
       /\ StaysComplete]_vars

\* C9 as amended: the same from any state with a non-empty active_questions.
C9_EndNowCompletesNonEmpty ==
    [][/\ (last_call' = "end_assessment_now" /\ active_questions # <<>>)
            => (CompleteAfter /\ trait_scores' = RecomputedAfter)
       /\ StaysComplete]_vars

\* ended early: complete with fewer answers than questions, pipeline active
C9_Witness ==
    /\ last_call = "end_assessment_now"
    /\ is_quiz_complete(Self)
    /\ Len(user_answers) < Len(active_questions)
    /\ PipelineRuns

\* C10: process_answer on a demographic question stores the choice index in
\* demographics under the question id, advances the cursor by one and leaves
\* the scoring state, for every choice index.
C10_DemographicNoScoring ==
    [][\A c \in ChoiceIndexes :
          (AnswerStep(c) /\ OnQuestion /\ ActiveQuestion.type = "demographic")
          => (/\ ActiveQuestion.id \in DOMAIN demographics'
              /\ demographics'[ActiveQuestion.id] = c
              /\ \A k \in DOMAIN demographics \ {ActiveQuestion.id} :
                    k \in DOMAIN demographics' /\ demographics'[k] = demographics[k]
              /\ raised' = ""
              /\ current_question' = current_question + 1
              /\ UNCHANGED ScoringState)]_vars

\* a demographic answer given after a scored one
C10_Witness ==
    /\ last_call = "process_answer"
    /\ current_question >= 1
    /\ active_questions[current_question].type = "demographic"
    /\ Len(user_answers) = current_question
    /\ demographics[active_questions[current_question].id] = user_answers[current_question]
    /\ pattern_counts.total > 0

\* C11: a reset_quiz call leaves the cursor at 0, no answers, every trait
\* and facet score at 0.5, every accumulator and pattern counter at 0; and an
\* engine that was restarted has, after an answer sequence, the trait and
\* facet scores of any other engine with the same active questions after the
\* same answers, one on its first attempt included.
C11_RestartEqualsFreshStart ==
    /\ last_call = "reset_quiz"
          => (/\ current_question = 0
              /\ user_answers = <<>>
              /\ trait_scores = NeutralTraits
              /\ facet_scores = NeutralFacets
              /\ sum_value_weight = ZeroAccumulator
              /\ sum_weight = ZeroAccumulator
              /\ pattern_counts = ZeroCounts)
    /\ (peer.active_questions = active_questions /\ peer.user_answers = user_answers)
          => (/\ peer.trait_scores = trait_scores
              /\ peer.facet_scores = facet_scores)

\* a restarted engine and one that never restarted, after the same scored
\* answers: the first answered the demographic question in an earlier
\* attempt, the second never did
C11_Witness ==
    /\ last_call = "process_answer"
    /\ pattern_counts.total > 0
    /\ \A k \in 1..current_question : active_questions[k].type # "demographic"
    /\ facet_scores # NeutralFacets
    /\ trait_scores # NeutralTraits
    /\ demographics # <<>>
    /\ peer.demographics = <<>>
    /\ peer.active_questions = active_questions
    /\ peer.user_answers = user_answers

\* the value labels and correlation symbols of the maps, and one unknown each
ValueLabels == {"Very Low", "Low", "Low-Moderate", "Moderate", "High", "Very High", "Unknown"}
CorrelationSymbols == {"+", "+m", "0", "-m", "-", "?"}

\* what one answer with this label adds to a trait: directly, and through a
\* correlation with this symbol
DirectContribution(label) == value_map(label) * W_d
CorrelatedContribution(label, symbol) ==
    _apply_correlations([svw |-> ZeroAccumulator, sw |-> ZeroAccumulator],
                        << <<"Ag", symbol>> >>, value_map(label)).svw["Agreeableness"]

\* C12: across a process_answer or end_assessment_now call no trait's
\* sum_weight or sum_value_weight decreases, every value label and every
\* correlation symbol contributing a non-negative amount; a step that
\* decreases one is a reset_quiz or select_test_mode call and sets all to 0.
C12_AccumulatorsGrow ==
    [][/\ last_call' \in {"process_answer", "end_assessment_now"}
            => \A t \in TraitNames :
                  /\ sum_weight'[t] >= sum_weight[t]
                  /\ sum_value_weight'[t] >= sum_value_weight[t]
       /\ (\E t \in TraitNames :
              \/ sum_weight'[t] < sum_weight[t]
              \/ sum_value_weight'[t] < sum_value_weight[t])
            => (/\ last_call' \in {"reset_quiz", "select_test_mode"}
                /\ sum_weight' = ZeroAccumulator
                /\ sum_value_weight' = ZeroAccumulator)
       /\ \A label \in ValueLabels :
            /\ DirectContribution(label) >= 0
            /\ \A symbol \in CorrelationSymbols :
                  CorrelatedContribution(label, symbol) >= 0]_vars

\* an answer whose choice carries a strong negative correlation symbol, after
\* a direct contribution
C12_Witness ==
    /\ last_call = "process_answer"
    /\ sum_weight["Vigilance"] > 0
    /\ sum_weight["Dominance"] > 0
    /\ sum_weight["Agreeableness"] > W_d

\* the base scores in the state a step leads to
BaseScoresAfter == _calculate_base_scores(sum_value_weight', sum_weight', test_mode')

\* the choice process_answer(c) reads on the active question
ChosenChoice(c) == ActiveQuestion.choices[ListIndex(Len(ActiveQuestion.choices), c)]

\* a step that scores value v directly on a registered trait, through a
\* choice that declares no correlations
DirectAnswerStep(c) ==
    /\ AnswerStep(c)
    /\ OnQuestion
    /\ ActiveQuestion.type # "demographic"
    /\ c < Len(ActiveQuestion.choices) /\ c >= -Len(ActiveQuestion.choices)
    /\ ActiveQuestion.category[1] \in TraitNames
    /\ ChosenChoice(c).correlations = <<>>

\* (v - 1) / 4 for the value of a label
NormalizedPosition(label) == ((value_map(label) - Quarter) * Scale) \div (4 * Quarter)

\* the base score of trait T moves from b to a value between b and target,
\* and no other base score moves
MovesToward(T, target) ==
    /\ BaseScoresAfter[T] >= Min(BaseScores[T], target)
    /\ BaseScoresAfter[T] <= Max(BaseScores[T], target)
    /\ \A i \in TraitIdx \ {T} : BaseScoresAfter[i] = BaseScores[i]

C14_FacetStrictlyInside ==
    \A t \in DOMAIN facet_scores : \A f \in DOMAIN facet_scores[t] :
        facet_scores[t][f] > 1000 /\ facet_scores[t][f] < 9000

\* C14 as amended: every facet score lies in the closed interval [0.1, 0.9],
\* for each trait's facets and no others.
C14_FacetInClosedRange ==
    /\ DOMAIN facet_scores = DOMAIN facets
    /\ \A t \in DOMAIN facet_scores :
          /\ DOMAIN facet_scores[t] = facets[t]
          /\ \A f \in facets[t] :
                facet_scores[t][f] >= 1000 /\ facet_scores[t][f] <= 9000

\* a facet that the clamp holds at a bound, after a run of extreme answers
C14_Witness ==
    /\ last_call = "process_answer"
    /\ pattern_counts.total >= FacetQuestions
    /\ facet_scores["Agreeableness"]["Trust"] \in {1000, 9000}
    /\ facet_scores["Vigilance"]["Caution"] \notin {1000, 5000, 9000}

\* a step that scores a choice on a question naming a facet of its trait
FacetAnswerStep(c) ==
    /\ AnswerStep(c)
    /\ OnQuestion
    /\ ActiveQuestion.type # "demographic"
    /\ c < Len(ActiveQuestion.choices) /\ c >= -Len(ActiveQuestion.choices)
    /\ Len(ActiveQuestion.category) > 1
    /\ ActiveQuestion.category[1] \in TraitNames
    /\ ActiveQuestion.category[2] \in facets[ActiveQuestion.category[1]]

\* the update of one facet from current to new under the value at position
\* target: the clamped 0.8 / 0.2 blend, no farther from target, on the same
\* side of it, a factor 0.8 closer when the clamp is idle, and inside [0.1, 0.9]
SmoothedToward(current, new, target) ==
    LET blend == Mul(current, 8000) + Mul(target, 2000) IN
    /\ new = Clip(blend, 1000, 9000)
    /\ Abs(new - target) <= Abs(current - target)
    /\ (blend >= 1000 /\ blend <= 9000)
          => Abs(10 * Abs(new - target) - 8 * Abs(current - target)) <= 10
    /\ current >= target => new >= target
    /\ current <= target => new <= target
    /\ new >= 1000 /\ new <= 9000

C16_ProgressIsFloor ==
    get_progress_percentage(Self) =
        IF active_questions = <<>> THEN 0
        ELSE Min(100, (100 * current_question) \div Len(active_questions))

\* a final score that respects the bucket of the direct score
RespectsBucket(direct, final) ==
    /\ (direct > 8000 /\ direct <= 9000) => final >= 5000
    /\ (direct > 7000 /\ direct <= 8000) => final >= 3500
    /\ (direct > 6000 /\ direct <= 7000) => final >= 2500
    /\ (direct >= 1000 /\ direct < 2000) => final <= 5000
    /\ (direct >= 2000 /\ direct < 3000) => final <= 6500

\* direct scores in and on the edges of every bucket, and scores phases 1-3
\* may hand over, on both sides of every floor and ceiling
DirectGrid == {1000, 1500, 1999, 2000, 2500, 2999, 3000, 5000, 6000, 6001, 6500,
               7000, 7001, 7500, 8000, 8001, 8500, 9000}
AdjustedGrid == {1000, 1500, 2499, 2500, 3499, 3500, 4999, 5000, 5001, 6500, 6501, 8500, 9000}

\* C17: whenever the pipeline runs, every trait's final score respects the
\* bucket of its direct (base) score: direct in (0.8, 0.9] gives final >= 0.5,
\* (0.7, 0.8] gives >= 0.35, (0.6, 0.7] gives >= 0.25, [0.1, 0.2) gives
\* <= 0.5 and [0.2, 0.3) gives <= 0.65, whatever phases 1-3 handed over.
C17_Phase4SafetyNet ==
    /\ PipelineRuns => \A i \in TraitIdx : RespectsBucket(BaseScores[i], trait_scores[i])
    /\ \A d \in DirectGrid : \A a \in AdjustedGrid :
          RespectsBucket(d, _apply_phase4_adjustments([i \in TraitIdx |-> a],
                                                      [i \in TraitIdx |-> d])[1])

\* the pipeline ran, phase 3 left a score beyond the limit of its direct
\* bucket, and phase 4 brought it back
C17_Witness ==
    /\ PipelineRuns
    /\ last_call = "process_answer"
    /\ \E i \in TraitIdx :
          /\ ~RespectsBucket(BaseScores[i], Phase3Output[i])
          /\ trait_scores[i] # Phase3Output[i]

\* the classification of the respondent in the current state
PatternRatio == _detect_response_pattern(pattern_counts)

\* C18 as claimed: phase 1 multiplies its adjustment factor by 0.8 exactly
\* when the respondent is classified high-biased (high ratio > 0.5), by 0.85
\* exactly when classified low-biased (low ratio > 0.5), and by 1 otherwise;
\* the two classifications are never both true.
C18_DampedWhenClassified ==
    /\ PatternDamping(PatternRatio) =
          (IF PatternRatio.is_high_biased THEN 8000
           ELSE IF PatternRatio.is_low_biased THEN 8500
           ELSE Scale)
    /\ ~(PatternRatio.is_high_biased /\ PatternRatio.is_low_biased)

\* C18 as amended: phase 1 multiplies its adjustment factor by 0.8 exactly
\* when the ratio of high answers exceeds 0.6, by 0.85 exactly when the ratio
\* of low answers exceeds 0.6, and by 1 otherwise; a damped respondent is
\* classified accordingly, and the two classifications are never both true.
C18_DampedAboveSixTenths ==
    LET total == Max(1, pattern_counts.total) IN
    /\ PatternDamping(PatternRatio) =
          (IF 10 * pattern_counts.high > 6 * total THEN 8000
           ELSE IF 10 * pattern_counts.low > 6 * total THEN 8500
           ELSE Scale)
    /\ PatternDamping(PatternRatio) = 8000 => PatternRatio.is_high_biased
    /\ PatternDamping(PatternRatio) = 8500 => PatternRatio.is_low_biased
    /\ PatternRatio.is_high_biased <=> 2 * pattern_counts.high > total
    /\ PatternRatio.is_low_biased <=> 2 * pattern_counts.low > total
    /\ ~(PatternRatio.is_high_biased /\ PatternRatio.is_low_biased)

\* a respondent with four high answers in five, with the pipeline running and
\* phase 1 moving scores
C18_Witness ==
    /\ PipelineRuns
    /\ pattern_counts.total = 5 /\ pattern_counts.high = 4
    /\ PatternDamping(PatternRatio) = 8000
    /\ _apply_phase1_adjustments(BaseScores, BaseScores, trait_correlations, pattern_counts)
          # BaseScores

\* the engine has answered every one of its active questions
AnsweredAll(e) ==
    /\ e.active_questions # <<>>
    /\ e.current_question = Len(e.active_questions)
    /\ Len(e.user_answers) = Len(e.active_questions)

\* the two engines hold the same questions, in whatever order, and gave
\* every question the same choice
SameChoicePerQuestion ==
    /\ AnsweredAll(Self) /\ AnsweredAll(peer)
    /\ {active_questions[a] : a \in DOMAIN active_questions}
           = {peer.active_questions[b] : b \in DOMAIN peer.active_questions}
    /\ \A a \in DOMAIN active_questions : \A b \in DOMAIN peer.active_questions :
           active_questions[a].id = peer.active_questions[b].id
               => user_answers[a] = peer.user_answers[b]

\* C19: two engines that answered the same questions with the same choice for
\* each question, in different question orders, hold identical
\* sum_value_weight, sum_weight and pattern_counts and identical trait_scores.
\* (The sums as reals and the counters agree; the doubles the code holds do
\* not.)
C19_OrderIndependent ==
    SameChoicePerQuestion =>
        /\ peer.sum_value_weight = sum_value_weight
        /\ peer.sum_weight = sum_weight
        /\ peer.accumulator_doubles = accumulator_doubles
        /\ peer.pattern_counts = pattern_counts
        /\ peer.trait_scores = trait_scores

\* what calculate_scores computes from the accumulators and counters held
Recomputed ==
    calculate_scores(sum_value_weight, sum_weight, pattern_counts, trait_correlations, test_mode)

\* C20: in every reachable state trait_scores is what calculate_scores
\* computes from the current accumulators and pattern counters, and
\* end_assessment_now changes nothing but the cursor: trait_scores, the
\* accumulators, the counters, the facet scores, the answers and the
\* demographics stay.
C20_ScoresInSync ==
    /\ [](trait_scores = Recomputed)
    /\ [][last_call' = "end_assessment_now"
            => /\ raised' = ""
               /\ UNCHANGED << ScoringState, user_answers, demographics,
                               active_questions, selected_mode >>]_vars

\* an assessment ended early, after scored answers, with adjusted scores
C20_Witness ==
    /\ last_call = "end_assessment_now"
    /\ pattern_counts.total > 0
    /\ Len(user_answers) < Len(active_questions)
    /\ current_question = Len(active_questions)
    /\ PipelineRuns
    /\ trait_scores # BaseScores
    /\ trait_scores = Recomputed

\* a step that scores a choice of a question on a registered trait: a direct
\* contribution of weight W_d
RegisteredAnswerStep(c) ==
    /\ AnswerStep(c)
    /\ OnQuestion
    /\ ActiveQuestion.type # "demographic"
    /\ c < Len(ActiveQuestion.choices) /\ c >= -Len(ActiveQuestion.choices)
    /\ ActiveQuestion.category[1] \in TraitNames

\* the calls that zero the accumulators
ResetCalls == {"reset_quiz", "select_test_mode"}

\* C21: in production mode a direct contribution leaves a total weight above
\* 10; the total stays above 10 until the next reset, and while it is
\* trait_scores is the outcome of the four phases on the base scores. While
\* the total is at most 10, trait_scores is the base scores, no trait holds
\* a direct contribution, and the total is that of fewer than 118 correlated
\* contributions of weight W_c.
C21_GateOpensOnFirstDirectAnswer ==
    /\ [][\A c \in ChoiceIndexes \cup GateChoices :
             (~test_mode /\ RegisteredAnswerStep(c)) => GateOpen(sum_weight')]_vars
    /\ [][(GateOpen(sum_weight) /\ last_call' \notin ResetCalls) => GateOpen(sum_weight')]_vars
    /\ [](PipelineRuns
            => trait_scores = AdjustmentPipeline(BaseScores, trait_correlations, pattern_counts))
    /\ []((~test_mode /\ ~GateOpen(sum_weight))
            => /\ trait_scores = BaseScores
               /\ \A t \in TraitNames : sum_weight[t] < W_d
               /\ TotalWeight(sum_weight) % W_c = 0
               /\ TotalWeight(sum_weight) \div W_c < 118)

\* the first answer of an attempt, a direct one: the one contribution held
\* opened the gate and the phases moved the scores off the base scores
C21_Witness ==
    /\ ~test_mode /\ last_call = "process_answer"
    /\ Len(user_answers) = 1 /\ current_question = 1
    /\ active_questions[1].category[1] \in TraitNames
    /\ TotalWeight(sum_weight) = W_d
    /\ GateOpen(sum_weight)
    /\ trait_scores = AdjustmentPipeline(BaseScores, trait_correlations, pattern_counts)
    /\ trait_scores # BaseScores

=============================================================================
